---- MODULE Spec2Model ----
(***************************************************************************)
(* Verified-name reconciliation of edx-name-affirmation: the VerifiedName  *)
(* table, the reconciliation API (create / get / update attempt id /       *)
(* update status) and the two celery tasks of tasks.py that reconcile an   *)
(* IDV or proctoring event with the table.                                 *)
(***************************************************************************)
EXTENDS Integers, Sequences, FiniteSets, TLC

\* ------------------------------------------------------------------ bounds
\* The table holds at most MaxRecords rows in the model.
MaxRecords == 2

\* ----------------------------------------------------------- input domains
\* Python's None for the two optional attempt-id columns and arguments.
None == 0

Users == {1, 2}

\* VERIFICATION_ATTEMPT_ID and PROCTORED_EXAM_ATTEMPT_ID of the tests.
AttemptIds == {123, 456}

\* verified names / photo id names / proctoring full names; "" is the empty string
VerifiedNames == {"", "Jonathan Doe", "J Doe"}

\* profile names; "" is the empty string
ProfileNames == {"", "Jon Doe"}

\* VerifiedNameStatus, a closed set
VerifiedNameStatus == {"pending", "submitted", "approved", "denied"}

\* The statuses calls and events are given in the model.  The code compares a
\* status with APPROVED only, so "submitted" behaves as "pending" and "denied".
Statuses == {"pending", "approved", "denied"}

APPROVED == "approved"

PENDING == "pending"

VARIABLES
    store,   \* the VerifiedName table: a sequence of rows, row i has id i
    now,     \* the clock that stamps `created`
    last,    \* the last call: its name, arguments and outcome
    configs, \* the VerifiedNameConfig table: a sequence of rows
    cache,   \* the config cache: per user, the cached flag ({} when not cached)
    given,   \* per user, the flag last given explicitly to a config write and
             \* the number of writes without fields since
    tasks,   \* the task queue: per task id, the task sent and its celery state
    event,   \* the event two concurrent task runs are given
    pc,      \* per concurrent task run, the statement it is at
    loc,     \* per concurrent task run, the rows it has loaded
    overlap, \* whether the two concurrent task runs were ever under way together
    redelivered \* whether the task run in `last` ran on a re-delivered message

vars == <<store, now, last, configs, cache, given, tasks, event, pc, loc, overlap,
          redelivered>>

\* the state of two concurrent task runs
racevars == <<event, pc, loc, overlap>>

\* the two concurrent task runs
Procs == {1, 2}

\* no event is being handled
NoEvent ==
    [kind |-> "", attempt_id |-> None, user_id |-> 0, name |-> "", profile |-> "",
     status |-> [p \in Procs |-> PENDING]]

\* the state of the config store
cfgvars == <<configs, cache, given>>

\* celery's retry budget of both tasks (max_retries)
MAX_RETRIES == 3

\* The queue holds at most MaxTasks tasks in the model.
MaxTasks == 2

TaskIds == 1 .. MaxTasks

\* a task id nothing was sent under
NoTask == [name |-> "", state |-> "NONE", retries |-> 0, executions |-> 0]

\* -------------------------------------------------------------- the table
\* VerifiedName.objects.all(): a queryset is a set of row ids
Objects == DOMAIN store

\* FilterUserName with the user__id=user_id condition forgotten
FilterNameAnyUser(qs, user_id, name) ==
    {i \in qs : store[i].verified_name = name}

\* FilterUserName with the verified_name=photo_id_name condition forgotten
FilterUserAnyName(qs, user_id, name) ==
    {i \in qs : store[i].user = user_id}

\* .filter(user__id=user_id, verified_name=photo_id_name)
FilterUserName(qs, user_id, name) ==
    {i \in qs : store[i].user = user_id /\ store[i].verified_name = name}

\* Unlinked with the verification_attempt_id=None condition forgotten
UnlinkedIgnoringVerification(qs) ==
    {i \in qs : store[i].proctored_exam_attempt_id = None}

\* Unlinked narrowed to one row, the newest unlinked one
UnlinkedNewestOnly(qs) ==
    {i \in qs : /\ store[i].proctored_exam_attempt_id = None
                /\ store[i].verification_attempt_id = None
                /\ \A j \in qs :
                      (/\ store[j].proctored_exam_attempt_id = None
                       /\ store[j].verification_attempt_id = None)
                      => store[j].created <= store[i].created}

\* Unlinked with the proctored_exam_attempt_id=None condition forgotten
UnlinkedIgnoringProctored(qs) ==
    {i \in qs : store[i].verification_attempt_id = None}

\* .filter(proctored_exam_attempt_id=None, verification_attempt_id=None)
Unlinked(qs) ==
    {i \in qs : store[i].proctored_exam_attempt_id = None
                /\ store[i].verification_attempt_id = None}

\* .filter(verification_attempt_id=attempt_id, proctored_exam_attempt_id=None),
\* evaluated on the table t as it is after the bulk update
ForIdvAttempt(t, qs, attempt_id) ==
    {i \in qs : t[i].verification_attempt_id = attempt_id
                /\ t[i].proctored_exam_attempt_id = None}

\* FilterUser with the user condition forgotten
FilterAnyUser(qs, user_id) == qs

\* .filter(user__id=user_id)
FilterUser(qs, user_id) == {i \in qs : store[i].user = user_id}

\* .filter(status=status)
FilterStatus(qs, status) == {i \in qs : store[i].status = status}

\* FilterUserProctored comparing the wrong column, verification_attempt_id
FilterUserProctoredWrongColumn(qs, user_id, attempt_id) ==
    {i \in qs : store[i].user = user_id
                /\ store[i].verification_attempt_id = attempt_id}

\* FilterUserProctored with the user__id=user_id condition forgotten
FilterAnyUserProctored(qs, user_id, attempt_id) ==
    {i \in qs : store[i].proctored_exam_attempt_id = attempt_id}

\* .filter(user__id=user_id, proctored_exam_attempt_id=attempt_id)
FilterUserProctored(qs, user_id, attempt_id) ==
    {i \in qs : store[i].user = user_id
                /\ store[i].proctored_exam_attempt_id = attempt_id}

\* .filter(user=user, verification_attempt_id=attempt_id)
FilterUserVerification(qs, user_id, attempt_id) ==
    {i \in qs : store[i].user = user_id
                /\ store[i].verification_attempt_id = attempt_id}

\* order_by('created') in place of order_by('-created'): oldest first
RECURSIVE OrderByCreatedAsc(_)
OrderByCreatedAsc(qs) ==
    IF qs = {} THEN <<>>
    ELSE LET m == CHOOSE i \in qs : \A j \in qs : store[i].created <= store[j].created
         IN  <<m>> \o OrderByCreatedAsc(qs \ {m})

\* .order_by('-created'): the ids of the queryset, newest first
RECURSIVE OrderByCreatedDesc(_)
OrderByCreatedDesc(qs) ==
    IF qs = {} THEN <<>>
    ELSE LET m == CHOOSE i \in qs : \A j \in qs : store[j].created <= store[i].created
         IN  <<m>> \o OrderByCreatedDesc(qs \ {m})

\* .last() in place of .first()
LastOf(ordered) == IF ordered = <<>> THEN None ELSE ordered[Len(ordered)]

\* .first(): the id of the first row, None for an empty queryset
First(ordered) == IF ordered = <<>> THEN None ELSE Head(ordered)

\* NewRow with the attempt ids left out of the create
NewRowWithoutAttemptIds(user, verified_name, profile_name, vid, pid, status) ==
    [id |-> Len(store) + 1,
     user |-> user,
     verified_name |-> verified_name,
     profile_name |-> profile_name,
     verification_attempt_id |-> None,
     proctored_exam_attempt_id |-> None,
     status |-> status,
     created |-> now]

\* VerifiedName.objects.create(...): a new row stamped with the clock
NewRow(user, verified_name, profile_name, vid, pid, status) ==
    [id |-> Len(store) + 1,
     user |-> user,
     verified_name |-> verified_name,
     profile_name |-> profile_name,
     verification_attempt_id |-> vid,
     proctored_exam_attempt_id |-> pid,
     status |-> status,
     created |-> now]

\* QuerySet.update(status=...) / obj.status = ...; obj.save() on the rows of qs
SetStatus(t, qs, status) ==
    [i \in DOMAIN t |-> IF i \in qs THEN [t[i] EXCEPT !.status = status] ELSE t[i]]

\* QuerySet.update(verification_attempt_id=attempt_id) on the rows of qs
SetVerificationAttemptId(t, qs, attempt_id) ==
    [i \in DOMAIN t |->
        IF i \in qs THEN [t[i] EXCEPT !.verification_attempt_id = attempt_id] ELSE t[i]]

\* what `last` records of a call
Call(op, user, vid, pid, status, name, profile, result, detail, ret) ==
    [op |-> op, user |-> user, vid |-> vid, pid |-> pid, status |-> status,
     name |-> name, profile |-> profile,
     result |-> result, detail |-> detail, ret |-> ret]

\* no call is in progress and none has a result pending
Idle == Call("idle", 0, None, None, PENDING, "", "", "ok", "", None)

Init ==
    /\ store = <<>>
    /\ now = 1
    /\ last = Idle
    /\ configs = <<>>
    /\ cache = [u \in Users |-> {}]
    /\ given = [u \in Users |-> [flag |-> {}, carried |-> 0]]
    /\ tasks = [t \in TaskIds |-> NoTask]
    /\ event = NoEvent
    /\ pc = [p \in Procs |-> "done"]
    /\ loc = [p \in Procs |-> {}]
    /\ overlap = FALSE
    /\ redelivered = FALSE

\* create_verified_name without validation of its attempt ids
CreateErrorsNoIdCheck(verified_name, profile_name, vid, pid) ==
    {e \in {<<"EmptyString", "verified_name">>, <<"EmptyString", "profile_name">>} :
        \/ e[2] = "verified_name" /\ verified_name = ""
        \/ e[2] = "profile_name" /\ profile_name = ""}

\* create_verified_name without validation of profile_name
CreateErrorsNoProfileCheck(verified_name, profile_name, vid, pid) ==
    {e \in {<<"MultipleAttemptIds", "">>, <<"EmptyString", "verified_name">>} :
        \/ e[1] = "MultipleAttemptIds" /\ vid # None /\ pid # None
        \/ e[2] = "verified_name" /\ verified_name = ""}

\* ------------------------------------------------ reconciliation API (4.1)
\* The validation errors create_verified_name can raise for its arguments:
\* MultipleAttemptIds when both attempt ids are given, EmptyString (naming
\* the field) when a name is empty.  No precedence between the checks is
\* fixed, so a call that breaks several rules may raise any of their errors.
CreateErrors(verified_name, profile_name, vid, pid) ==
    {e \in {<<"MultipleAttemptIds", "">>,
            <<"EmptyString", "verified_name">>,
            <<"EmptyString", "profile_name">>} :
        \/ e[1] = "MultipleAttemptIds" /\ vid # None /\ pid # None
        \/ e[2] = "verified_name" /\ verified_name = ""
        \/ e[2] = "profile_name" /\ profile_name = ""}

create_verified_name(user, verified_name, profile_name, vid, pid, status) ==
    LET errors == CreateErrors(verified_name, profile_name, vid, pid)
    IN  IF errors # {}
        THEN /\ \E e \in errors :
                  last' = Call("create_verified_name", user, vid, pid, status,
                               verified_name, profile_name, e[1], e[2], None)
             /\ UNCHANGED <<store, now>>
        ELSE /\ Len(store) < MaxRecords
             /\ store' = Append(store, NewRow(user, verified_name, profile_name,
                                              vid, pid, status))
             /\ now' = now + 1
             /\ last' = Call("create_verified_name", user, vid, pid, status,
                             verified_name, profile_name, "ok", "created",
                             Len(store) + 1)

\* the row get_verified_name returns (None when there is none)
GetVerifiedName(user, is_verified_only) ==
    IF is_verified_only
    THEN First(OrderByCreatedDesc(FilterStatus(FilterUser(Objects, user), APPROVED)))
    ELSE First(OrderByCreatedDesc(FilterUser(Objects, user)))

get_verified_name(user, is_verified_only) ==
    /\ last' = Call("get_verified_name", user, None, None, PENDING, "", "",
                    "ok", IF is_verified_only THEN "verified_only" ELSE "any",
                    GetVerifiedName(user, is_verified_only))
    /\ UNCHANGED <<store, now>>

update_verification_attempt_id(user, attempt_id) ==
    LET recent == First(OrderByCreatedDesc(FilterUser(Objects, user)))
    IN  IF recent = None
        THEN /\ last' = Call("update_verification_attempt_id", user, attempt_id, None,
                             PENDING, "", "", "DoesNotExist", "", None)
             /\ UNCHANGED <<store, now>>
        ELSE IF \/ store[recent].verification_attempt_id # None
                \/ store[recent].proctored_exam_attempt_id # None
        THEN /\ Len(store) < MaxRecords
             /\ store' = Append(store, NewRow(user, store[recent].verified_name,
                                              store[recent].profile_name,
                                              attempt_id, None, store[recent].status))
             /\ now' = now + 1
             /\ last' = Call("update_verification_attempt_id", user, attempt_id, None,
                             PENDING, "", "", "ok", "created", recent)
        ELSE /\ store' = SetVerificationAttemptId(store, {recent}, attempt_id)
             /\ last' = Call("update_verification_attempt_id", user, attempt_id, None,
                             PENDING, "", "", "ok", "updated", recent)
             /\ UNCHANGED now

update_verified_name_status(user, status, vid, pid) ==
    IF vid = None /\ pid = None
    THEN /\ last' = Call("update_verified_name_status", user, vid, pid, status, "", "",
                         "AttemptIdNotGiven", "", None)
         /\ UNCHANGED <<store, now>>
    ELSE IF vid # None /\ pid # None
    THEN /\ last' = Call("update_verified_name_status", user, vid, pid, status, "", "",
                         "MultipleAttemptIds", "", None)
         /\ UNCHANGED <<store, now>>
    ELSE LET matching == IF vid # None
                         THEN FilterUserVerification(Objects, user, vid)
                         ELSE FilterUserProctored(Objects, user, pid)
         IN  IF matching = {}
             THEN /\ last' = Call("update_verified_name_status", user, vid, pid, status,
                                  "", "", "DoesNotExist", "", None)
                  /\ UNCHANGED <<store, now>>
             ELSE \E i \in matching :
                  /\ store' = SetStatus(store, {i}, status)
                  /\ last' = Call("update_verified_name_status", user, vid, pid, status,
                                  "", "", "ok", "updated", i)
                  /\ UNCHANGED now

\* --------------------------------------------------- IDV event handler (4.2)
idv_update_verified_name_task(attempt_id, user_id, name_affirmation_status, photo_id_name, full_name) ==
    LET verified_names == FilterUserName(Objects, user_id, photo_id_name)
        unlinked == Unlinked(verified_names)
        updated == SetVerificationAttemptId(store, unlinked, attempt_id)
        verified_name_qs == ForIdvAttempt(updated, verified_names, attempt_id)
    IN  IF verified_names # {}
        THEN /\ store' = SetStatus(updated, verified_name_qs, name_affirmation_status)
             /\ last' = Call("idv_update_verified_name_task", user_id, attempt_id, None,
                             name_affirmation_status, photo_id_name, full_name,
                             "ok", "updated", Cardinality(unlinked))
             /\ UNCHANGED now
        ELSE /\ Len(store) < MaxRecords
             /\ store' = Append(store, NewRow(user_id, photo_id_name, full_name,
                                              attempt_id, None, name_affirmation_status))
             /\ now' = now + 1
             /\ last' = Call("idv_update_verified_name_task", user_id, attempt_id, None,
                             name_affirmation_status, photo_id_name, full_name,
                             "ok", "created", Len(store) + 1)

\* -------------------------------------------- proctoring event handler (4.3)
\* ApprovedVerifiedName with the user__id=user_id condition forgotten
ApprovedAnyUser(user_id) ==
    First(OrderByCreatedDesc(FilterStatus(Objects, APPROVED)))

\* ApprovedVerifiedName looking at the user's most recent row only: approved
\* rows older than a row that is not approved are missed
ApprovedIfMostRecent(user_id) ==
    LET recent == First(OrderByCreatedDesc(FilterUser(Objects, user_id)))
    IN  IF recent # None /\ store[recent].status = APPROVED THEN recent ELSE None

\* the most recent approved row of the user, if any
ApprovedVerifiedName(user_id) ==
    First(OrderByCreatedDesc(FilterStatus(FilterUser(Objects, user_id), APPROVED)))

proctoring_update_verified_name_task(attempt_id, user_id, name_affirmation_status, full_name, profile_name) ==
    LET approved == ApprovedVerifiedName(user_id)
        verified_name == First(OrderByCreatedDesc(
                             FilterUserProctored(Objects, user_id, attempt_id)))
    IN  IF approved # None
        THEN /\ last' = Call("proctoring_update_verified_name_task", user_id, None,
                             attempt_id, name_affirmation_status, full_name, profile_name,
                             "ok",
                             IF store[approved].verified_name = full_name
                             THEN "approved" ELSE "approved_name_differs",
                             approved)
             /\ UNCHANGED <<store, now>>
        ELSE IF verified_name # None
        THEN /\ store' = SetStatus(store, {verified_name}, name_affirmation_status)
             /\ last' = Call("proctoring_update_verified_name_task", user_id, None,
                             attempt_id, name_affirmation_status, full_name, profile_name,
                             "ok", "updated", verified_name)
             /\ UNCHANGED now
        ELSE IF full_name # "" /\ profile_name # ""
        THEN /\ Len(store) < MaxRecords
             /\ store' = Append(store, NewRow(user_id, full_name, profile_name,
                                              None, attempt_id, name_affirmation_status))
             /\ now' = now + 1
             /\ last' = Call("proctoring_update_verified_name_task", user_id, None,
                             attempt_id, name_affirmation_status, full_name, profile_name,
                             "ok", "created", Len(store) + 1)
        ELSE /\ last' = Call("proctoring_update_verified_name_task", user_id, None,
                             attempt_id, name_affirmation_status, full_name, profile_name,
                             "ok", "cannot_create", None)
             /\ UNCHANGED <<store, now>>

\* ------------------------------------------------------------ specification
CreateVerifiedName ==
    /\ last = Idle
    /\ UNCHANGED <<cfgvars, tasks, racevars, redelivered>>
    /\ \E user \in Users, verified_name \in VerifiedNames, profile_name \in ProfileNames,
       vid \in AttemptIds \cup {None}, pid \in AttemptIds \cup {None},
       status \in Statuses :
        create_verified_name(user, verified_name, profile_name, vid, pid, status)

GetVerifiedNameCall ==
    /\ last = Idle
    /\ UNCHANGED <<cfgvars, tasks, racevars, redelivered>>
    /\ \E user \in Users, is_verified_only \in BOOLEAN :
        get_verified_name(user, is_verified_only)

UpdateVerificationAttemptId ==
    /\ last = Idle
    /\ UNCHANGED <<cfgvars, tasks, racevars, redelivered>>
    /\ \E user \in Users, attempt_id \in AttemptIds :
        update_verification_attempt_id(user, attempt_id)

UpdateVerifiedNameStatus ==
    /\ last = Idle
    /\ UNCHANGED <<cfgvars, tasks, racevars, redelivered>>
    /\ \E user \in Users, status \in Statuses,
       vid \in AttemptIds \cup {None}, pid \in AttemptIds \cup {None} :
        update_verified_name_status(user, status, vid, pid)

IdvTask ==
    /\ last = Idle
    /\ UNCHANGED <<cfgvars, tasks, racevars, redelivered>>
    /\ \E attempt_id \in AttemptIds, user_id \in Users, status \in Statuses,
       photo_id_name \in VerifiedNames, full_name \in ProfileNames :
        idv_update_verified_name_task(attempt_id, user_id, status, photo_id_name, full_name)

ProctoringTask ==
    /\ last = Idle
    /\ UNCHANGED <<cfgvars, tasks, racevars, redelivered>>
    /\ \E attempt_id \in AttemptIds, user_id \in Users, status \in Statuses,
       full_name \in VerifiedNames, profile_name \in ProfileNames :
        proctoring_update_verified_name_task(attempt_id, user_id, status,
                                             full_name, profile_name)

\* the call returns to its caller (or the task ends); the next call can start
Return ==
    /\ last # Idle
    /\ last' = Idle
    /\ UNCHANGED <<store, now, cfgvars, tasks, racevars, redelivered>>

Next ==
    \/ Return
    \/ CreateVerifiedName
    \/ GetVerifiedNameCall
    \/ UpdateVerificationAttemptId
    \/ UpdateVerifiedNameStatus
    \/ IdvTask
    \/ ProctoringTask

Spec == Init /\ [][Next]_vars

\* ------------------------------------------------------------------- types
TypeOK ==
    /\ Len(store) <= MaxRecords
    /\ \A i \in DOMAIN store :
        /\ store[i].id = i
        /\ store[i].user \in Users
        /\ store[i].status \in VerifiedNameStatus
        /\ store[i].verification_attempt_id \in AttemptIds \cup {None}
        /\ store[i].proctored_exam_attempt_id \in AttemptIds \cup {None}

\* the rows of a table t that belong to a user
RowsOf(t, user) == {i \in DOMAIN t : t[i].user = user}

\* ------------------------------------------------------------------ claims

\* C1: in every reachable state, whatever sequence of create_verified_name,
\* update_verification_attempt_id, update_verified_name_status, IDV task runs
\* and proctoring task runs led to it, no row has both verification_attempt_id
\* and proctored_exam_attempt_id set.
C1_AtMostOneAttemptId ==
    \A i \in DOMAIN store :
        ~ (store[i].verification_attempt_id # None
           /\ store[i].proctored_exam_attempt_id # None)

\* C1 witness: an IDV task run attached its attempt id to an unlinked row while
\* a row of the same user and name that carries a proctored id was passed over.
C1_Witness ==
    /\ last.op = "idv_update_verified_name_task"
    /\ last.detail = "updated"
    /\ last.ret >= 1
    /\ \E i \in DOMAIN store :
        /\ store[i].user = last.user
        /\ store[i].verified_name = last.name
        /\ store[i].proctored_exam_attempt_id # None
        /\ store[i].verification_attempt_id = None

\* C2: every row, whichever operation created it and for any arguments, has a
\* non-empty verified_name and a non-empty profile_name.
C2_NamesNeverEmpty ==
    \A i \in DOMAIN store :
        store[i].verified_name # "" /\ store[i].profile_name # ""

\* C3: get_verified_name(user) returns the row of the user with the maximum
\* created timestamp, and nothing if the user has no row; with
\* is_verified_only it returns the most recently created of the user's
\* approved rows, and nothing if none is approved, even when a newer row that
\* is not approved exists.
C3_GetVerifiedNameMostRecent ==
    last.op = "get_verified_name" =>
        LET candidates ==
                {i \in RowsOf(store, last.user) :
                    last.detail = "verified_only" => store[i].status = APPROVED}
        IN  IF candidates = {}
            THEN last.ret = None
            ELSE /\ last.ret \in candidates
                 /\ \A j \in candidates : store[j].created <= store[last.ret].created

\* C3 witness: a verified-only lookup returned an approved row although the
\* user has a newer row that is not approved.
C3_Witness ==
    /\ last.op = "get_verified_name"
    /\ last.detail = "verified_only"
    /\ last.ret # None
    /\ \E j \in RowsOf(store, last.user) :
        /\ store[j].created > store[last.ret].created
        /\ store[j].status # APPROVED

\* C4: a proctoring task run for a user who already has at least one approved
\* row changes nothing in the table: no row is created and no status changes,
\* whatever the event's status, whether or not full_name differs from the
\* approved name, and whether or not a row for that exact
\* proctored_exam_attempt_id exists.
C4_ProctoringNoOpWhenApproved ==
    [][(/\ last'.op = "proctoring_update_verified_name_task"
        /\ \E i \in RowsOf(store, last'.user) : store[i].status = APPROVED)
       => store' = store]_vars

\* C4 witness: a proctoring task ran for a user with an approved row whose name
\* differs from full_name, while the user also has a row for that exact
\* proctored attempt whose status differs from the event's.
C4_Witness ==
    /\ last.op = "proctoring_update_verified_name_task"
    /\ \E i \in RowsOf(store, last.user) :
        /\ store[i].status = APPROVED
        /\ store[i].verified_name # last.name
    /\ \E j \in RowsOf(store, last.user) :
        /\ store[j].proctored_exam_attempt_id = last.pid
        /\ store[j].status # last.status
        /\ store[j].status # APPROVED

\* what C5 says an IDV task run makes of row r, for a user with rows named
\* photo_id_name
C5_Expected(r, user, attempt_id, status, photo_id_name) ==
    LET mine == r.user = user /\ r.verified_name = photo_id_name
        linked == IF /\ mine
                     /\ r.verification_attempt_id = None
                     /\ r.proctored_exam_attempt_id = None
                  THEN [r EXCEPT !.verification_attempt_id = attempt_id]
                  ELSE r
    IN  IF /\ mine
           /\ linked.verification_attempt_id = attempt_id
           /\ linked.proctored_exam_attempt_id = None
        THEN [linked EXCEPT !.status = status]
        ELSE linked

\* C5: an IDV task run for a user who has at least one row with verified_name
\* equal to photo_id_name creates no row; it sets verification_attempt_id to
\* attempt_id on every such row that has neither attempt id, then sets the
\* status to the event's on every such row whose verification_attempt_id is
\* attempt_id and whose proctored id is unset; rows with another verified_name
\* or with a proctored id are unchanged.
C5_IdvUpdatesMatchingRows ==
    [][(/\ last'.op = "idv_update_verified_name_task"
        /\ \E i \in RowsOf(store, last'.user) : store[i].verified_name = last'.name)
       => /\ Len(store') = Len(store)
          /\ \A i \in DOMAIN store :
                store'[i] = C5_Expected(store[i], last'.user, last'.vid,
                                        last'.status, last'.name)]_vars

\* C5 witness: an IDV task run linked an unlinked row of the matching name and
\* set its status, while another row of the user (another name, or a
\* proctored id) kept a different status.
C5_Witness ==
    /\ last.op = "idv_update_verified_name_task"
    /\ last.detail = "updated"
    /\ last.ret >= 1
    /\ \E i \in RowsOf(store, last.user) :
        /\ store[i].verified_name = last.name
        /\ store[i].verification_attempt_id = last.vid
        /\ store[i].status = last.status
    /\ \E j \in RowsOf(store, last.user) :
        /\ \/ store[j].verified_name # last.name
           \/ store[j].proctored_exam_attempt_id # None
        /\ store[j].status # last.status

\* C6: after an IDV task run that completes without raising, from any table,
\* the event has been applied: the user has a row with verified_name =
\* photo_id_name, verification_attempt_id = attempt_id and the event's status.
C6_IdvEventApplied ==
    (last.op = "idv_update_verified_name_task" /\ last.result = "ok") =>
        \E i \in RowsOf(store, last.user) :
            /\ store[i].verified_name = last.name
            /\ store[i].verification_attempt_id = last.vid
            /\ store[i].status = last.status

\* the most recently created row of the user in table t (None if there is none)
MostRecentOf(t, user) ==
    IF RowsOf(t, user) = {} THEN None
    ELSE CHOOSE i \in RowsOf(t, user) :
            \A j \in RowsOf(t, user) : t[j].created <= t[i].created

\* C7: update_verification_attempt_id(user, attempt_id), when the user's most
\* recently created row has neither attempt id, sets verification_attempt_id
\* on that row in place (row count and older rows unchanged); when that row has
\* a verification or a proctored attempt id, it leaves the row unchanged and
\* creates exactly one new row carrying the new verification_attempt_id.
C7_UpdateAttemptIdInPlaceOrNew ==
    [][(/\ last'.op = "update_verification_attempt_id"
        /\ MostRecentOf(store, last'.user) # None)
       => LET recent == MostRecentOf(store, last'.user)
              n == Len(store)
          IN  IF /\ store[recent].verification_attempt_id = None
                 /\ store[recent].proctored_exam_attempt_id = None
              THEN store' = [store EXCEPT
                                ![recent].verification_attempt_id = last'.vid]
              ELSE /\ Len(store') = n + 1
                   /\ SubSeq(store', 1, n) = store
                   /\ store'[n + 1].user = last'.user
                   /\ store'[n + 1].verification_attempt_id = last'.vid
                   /\ store'[n + 1].proctored_exam_attempt_id = None]_vars

\* C7 witness: the user's most recent row carried a proctored attempt id, and
\* update_verification_attempt_id made a new row with the verification id.
C7_Witness ==
    /\ last.op = "update_verification_attempt_id"
    /\ last.detail = "created"
    /\ store[last.ret].proctored_exam_attempt_id # None
    /\ store[last.ret].verification_attempt_id = None
    /\ store[Len(store)].verification_attempt_id = last.vid
    /\ Len(store) = last.ret + 1

\* C8: update_verified_name_status fails with AttemptIdNotGiven when no
\* attempt id is given and with MultipleAttemptIds when both are; with exactly
\* one it sets the status of a row of the user that has that attempt id, and
\* fails with DoesNotExist when the user has no such row; whenever it fails
\* the table is unchanged.
C8_UpdateStatusByAttemptId ==
    [][last'.op = "update_verified_name_status"
       => LET matching ==
                  {i \in RowsOf(store, last'.user) :
                      IF last'.vid # None
                      THEN store[i].verification_attempt_id = last'.vid
                      ELSE store[i].proctored_exam_attempt_id = last'.pid}
          IN  IF last'.vid = None /\ last'.pid = None
              THEN last'.result = "AttemptIdNotGiven" /\ store' = store
              ELSE IF last'.vid # None /\ last'.pid # None
              THEN last'.result = "MultipleAttemptIds" /\ store' = store
              ELSE IF matching = {}
              THEN last'.result = "DoesNotExist" /\ store' = store
              ELSE /\ last'.result = "ok"
                   /\ \E i \in matching :
                        store' = [store EXCEPT ![i].status = last'.status]]_vars

\* C8 witness: a status update by proctored attempt id changed the status of
\* the user's row while another user has a row with the same attempt id.
C8_Witness ==
    /\ last.op = "update_verified_name_status"
    /\ last.result = "ok"
    /\ last.pid # None
    /\ store[last.ret].status = last.status
    /\ \E j \in DOMAIN store :
        /\ store[j].user # last.user
        /\ store[j].proctored_exam_attempt_id = last.pid
        /\ store[j].status # last.status

C11_UpdateAttemptIdNoRows ==
    [][(/\ last'.op = "update_verification_attempt_id"
        /\ RowsOf(store, last'.user) = {})
       => last'.result = "DoesNotExist" /\ store' = store]_vars

\* C11 witness: the call failed with DoesNotExist for a user without rows
\* while another user has an unlinked row.
C11_Witness ==
    /\ last.op = "update_verification_attempt_id"
    /\ last.result = "DoesNotExist"
    /\ RowsOf(store, last.user) = {}
    /\ \E i \in DOMAIN store :
        /\ store[i].verification_attempt_id = None
        /\ store[i].proctored_exam_attempt_id = None

\* C12: across any sequence of operations an existing row's user,
\* verified_name, profile_name, proctored_exam_attempt_id and created never
\* change and no row disappears; its verification_attempt_id changes only
\* from unset to a value, hence at most once; only status may change again
\* and again.
C12_RowsImmutable ==
    [][\A i \in DOMAIN store :
        /\ i \in DOMAIN store'
        /\ store'[i].id = store[i].id
        /\ store'[i].user = store[i].user
        /\ store'[i].verified_name = store[i].verified_name
        /\ store'[i].profile_name = store[i].profile_name
        /\ store'[i].proctored_exam_attempt_id = store[i].proctored_exam_attempt_id
        /\ store'[i].created = store[i].created
        /\ store[i].verification_attempt_id # None
              => store'[i].verification_attempt_id = store[i].verification_attempt_id]_vars

\* C12 witness: an IDV task run for one attempt id found a row of its user and
\* name that is linked to the other attempt id, and changed nothing on it.
C12_Witness ==
    /\ last.op = "idv_update_verified_name_task"
    /\ last.detail = "updated"
    /\ \E i \in RowsOf(store, last.user) :
        /\ store[i].verified_name = last.name
        /\ store[i].verification_attempt_id # None
        /\ store[i].verification_attempt_id # last.vid
        /\ store[i].status # last.status

\* C16: an IDV task run for a user who has no row with verified_name equal to
\* photo_id_name creates exactly one row, with verified_name = photo_id_name,
\* profile_name = full_name, verification_attempt_id = attempt_id, no
\* proctored id and the event's status, and changes no existing row.
C16_IdvCreatesWhenNoMatch ==
    [][(/\ last'.op = "idv_update_verified_name_task"
        /\ \A i \in RowsOf(store, last'.user) : store[i].verified_name # last'.name)
       => LET n == Len(store)
          IN  /\ Len(store') = n + 1
              /\ SubSeq(store', 1, n) = store
              /\ store'[n + 1].user = last'.user
              /\ store'[n + 1].verified_name = last'.name
              /\ store'[n + 1].profile_name = last'.profile
              /\ store'[n + 1].verification_attempt_id = last'.vid
              /\ store'[n + 1].proctored_exam_attempt_id = None
              /\ store'[n + 1].status = last'.status]_vars

\* C16 witness: an IDV task run created a row for its user while another user
\* has a row with the event's photo_id_name.
C16_Witness ==
    /\ last.op = "idv_update_verified_name_task"
    /\ last.detail = "created"
    /\ store[last.ret].verified_name = last.name
    /\ \E j \in DOMAIN store :
        /\ j # last.ret
        /\ store[j].user # last.user
        /\ store[j].verified_name = last.name

\* C17: a proctoring task run for a user with no approved row: if the user has
\* a row with proctored_exam_attempt_id = attempt_id it sets the status of the
\* newest such row to the event's and creates nothing; otherwise, if full_name
\* and profile_name are both non-empty, it creates exactly one row
\* (verified_name = full_name, profile_name, proctored_exam_attempt_id =
\* attempt_id, the event's status); otherwise the table is unchanged.
C17_ProctoringWithoutApproved ==
    [][(/\ last'.op = "proctoring_update_verified_name_task"
        /\ \A i \in RowsOf(store, last'.user) : store[i].status # APPROVED)
       => LET n == Len(store)
              matching == {i \in RowsOf(store, last'.user) :
                              store[i].proctored_exam_attempt_id = last'.pid}
          IN  IF matching # {}
              THEN \E i \in matching :
                      /\ \A j \in matching : store[j].created <= store[i].created
                      /\ store' = [store EXCEPT ![i].status = last'.status]
              ELSE IF last'.name # "" /\ last'.profile # ""
              THEN /\ Len(store') = n + 1
                   /\ SubSeq(store', 1, n) = store
                   /\ store'[n + 1].user = last'.user
                   /\ store'[n + 1].verified_name = last'.name
                   /\ store'[n + 1].profile_name = last'.profile
                   /\ store'[n + 1].proctored_exam_attempt_id = last'.pid
                   /\ store'[n + 1].verification_attempt_id = None
                   /\ store'[n + 1].status = last'.status
              ELSE store' = store]_vars

\* C17 witness: a proctoring task run set the status of its user's row for the
\* attempt while another user has an approved row.
C17_Witness ==
    /\ last.op = "proctoring_update_verified_name_task"
    /\ last.detail = "updated"
    /\ store[last.ret].status = last.status
    /\ last.status # APPROVED
    /\ \E j \in DOMAIN store :
        store[j].user # last.user /\ store[j].status = APPROVED

\* C20 as stated: after a single IDV task run for attempt_id on a table in
\* which no row carries that verification_attempt_id and no row has an attempt
\* id at all, at most one row of the user has verification_attempt_id =
\* attempt_id.
C20_Original ==
    [][(/\ last'.op = "idv_update_verified_name_task"
        /\ \A i \in DOMAIN store :
              /\ store[i].verification_attempt_id = None
              /\ store[i].proctored_exam_attempt_id = None)
       => Cardinality({i \in RowsOf(store', last'.user) :
                          store'[i].verification_attempt_id = last'.vid}) <= 1]_vars

\* C20 as amended: after such a run the rows of the user that carry
\* attempt_id are exactly the user's rows named photo_id_name that had no
\* attempt id before the run, or the one new row when the user had no row of
\* that name; so at most one row carries attempt_id when the user had at most
\* one row named photo_id_name, and several do otherwise.
C20_AllUnlinkedRowsOfTheNameLinked ==
    [][(/\ last'.op = "idv_update_verified_name_task"
        /\ \A i \in DOMAIN store :
              /\ store[i].verification_attempt_id = None
              /\ store[i].proctored_exam_attempt_id = None)
       => LET named == {i \in RowsOf(store, last'.user) :
                           store[i].verified_name = last'.name}
              linked == {i \in RowsOf(store', last'.user) :
                            store'[i].verification_attempt_id = last'.vid}
          IN  /\ linked = IF named = {} THEN {Len(store) + 1} ELSE named
              /\ Cardinality(named) <= 1 => Cardinality(linked) <= 1]_vars

\* C20 witness: an IDV task run linked two rows of the user to its attempt id.
C20_Witness ==
    /\ last.op = "idv_update_verified_name_task"
    /\ last.detail = "updated"
    /\ last.ret = 2
    /\ Cardinality({i \in RowsOf(store, last.user) :
                       store[i].verification_attempt_id = last.vid}) = 2

\* ---------------------------------------------------------- config store (3)
\* The config table holds at most MaxConfigs rows in the model.
MaxConfigs == 3

\* the keyword arguments a config write can be given: none, or the flag
ConfigFields ==
    {{}} \cup {{<<"use_verified_name_for_certs", b>>} : b \in BOOLEAN}

\* VerifiedNameConfig.current(user): the id of the user's newest row, None if none
CurrentConfig(user) ==
    IF {i \in DOMAIN configs : configs[i].user = user} = {} THEN None
    ELSE CHOOSE i \in DOMAIN configs :
            /\ configs[i].user = user
            /\ \A j \in DOMAIN configs :
                  configs[j].user = user => configs[j].created <= configs[i].created

\* the flag of the user's current row; False when the user has no row
CurrentFlag(user) ==
    IF CurrentConfig(user) = None THEN FALSE
    ELSE configs[CurrentConfig(user)].use_verified_name_for_certs

\* a config write that takes the field's default when the field is not given
LayerOverDefault(user, fields) ==
    IF \E f \in fields : f[1] = "use_verified_name_for_certs"
    THEN (CHOOSE f \in fields : f[1] = "use_verified_name_for_certs")[2]
    ELSE FALSE

\* the flag of the new row: the field given, else the current row's value
LayerOverCurrent(user, fields) ==
    IF \E f \in fields : f[1] = "use_verified_name_for_certs"
    THEN (CHOOSE f \in fields : f[1] = "use_verified_name_for_certs")[2]
    ELSE CurrentFlag(user)

\* a config write that leaves the cache as it is
InvalidateNothing(user) == cache

\* the cache after the entry of the user is invalidated
Invalidate(user) == [cache EXCEPT ![user] = {}]

\* a bool as `last` records it
BoolRet(b) == IF b THEN 1 ELSE 0

create_verified_name_config(user, fields) ==
    /\ Len(configs) < MaxConfigs
    /\ configs' = Append(configs,
                         [user |-> user,
                          use_verified_name_for_certs |-> LayerOverCurrent(user, fields),
                          created |-> now])
    /\ now' = now + 1
    /\ cache' = Invalidate(user)
    /\ given' = [given EXCEPT ![user] =
                    IF fields = {}
                    THEN [flag |-> given[user].flag, carried |-> given[user].carried + 1]
                    ELSE [flag |-> {f[2] : f \in fields}, carried |-> 0]]
    /\ last' = Call("create_verified_name_config", user, None, None, PENDING, "", "",
                    "ok", IF fields = {} THEN "no_fields" ELSE "fields",
                    BoolRet(LayerOverCurrent(user, fields)))

should_use_verified_name_for_certs(user) ==
    IF cache[user] # {}
    THEN /\ last' = Call("should_use_verified_name_for_certs", user, None, None,
                         PENDING, "", "", "ok", "hit",
                         BoolRet(CHOOSE b \in cache[user] : TRUE))
         /\ UNCHANGED <<configs, cache, given, now>>
    ELSE /\ cache' = [cache EXCEPT ![user] = {CurrentFlag(user)}]
         /\ last' = Call("should_use_verified_name_for_certs", user, None, None,
                         PENDING, "", "", "ok", "miss", BoolRet(CurrentFlag(user)))
         /\ UNCHANGED <<configs, given, now>>

CreateVerifiedNameConfig ==
    /\ last = Idle
    /\ UNCHANGED <<store, tasks, racevars, redelivered>>
    /\ \E user \in Users, fields \in ConfigFields :
        create_verified_name_config(user, fields)

ShouldUseVerifiedNameForCerts ==
    /\ last = Idle
    /\ UNCHANGED <<store, tasks, racevars, redelivered>>
    /\ \E user \in Users : should_use_verified_name_for_certs(user)

NextConfig ==
    \/ Return
    \/ CreateVerifiedNameConfig
    \/ ShouldUseVerifiedNameForCerts

SpecConfig == Init /\ [][NextConfig]_vars

\* C13: create_verified_name_config carries over every field it is not given
\* from the user's current row: after a write that gives
\* use_verified_name_for_certs a value, followed by any number of writes
\* without fields, should_use_verified_name_for_certs(user) returns that value
\* (True after True).
C13_ConfigNoOverwrite ==
    (/\ last.op = "should_use_verified_name_for_certs"
     /\ given[last.user].flag # {})
    => last.ret = BoolRet(CHOOSE b \in given[last.user].flag : TRUE)

\* C13 witness: the flag was given as True, two writes without fields followed,
\* and the read returned True.
C13_Witness ==
    /\ last.op = "should_use_verified_name_for_certs"
    /\ given[last.user].flag = {TRUE}
    /\ given[last.user].carried = 2
    /\ last.ret = 1

\* C14: after any interleaving of config writes and cached reads for several
\* users, should_use_verified_name_for_certs(user) returns the flag of that
\* user's most recently created config row (False without rows): no cached
\* value is stale or another user's.
C14_CacheNeverStale ==
    /\ last.op = "should_use_verified_name_for_certs"
          => last.ret = BoolRet(CurrentFlag(last.user))
    /\ \A u \in Users : cache[u] \subseteq {CurrentFlag(u)}

\* C14 witness: a read was served from the cache for a user whose flag was
\* written twice with different values, while the other user's current flag is
\* the opposite.
C14_Witness ==
    /\ last.op = "should_use_verified_name_for_certs"
    /\ last.detail = "hit"
    /\ \E i, j \in DOMAIN configs :
        /\ configs[i].user = last.user /\ configs[j].user = last.user
        /\ configs[i].use_verified_name_for_certs # configs[j].use_verified_name_for_certs
    /\ \E u \in Users :
        /\ u # last.user
        /\ CurrentConfig(u) # None
        /\ CurrentFlag(u) # CurrentFlag(last.user)

\* ------------------------------------------------- task queue (4.2, 4.3)
TaskNames == {"idv_update_verified_name_task", "proctoring_update_verified_name_task"}

\* task.delay(...): the task is sent under a free task id
Delay(t, name) ==
    /\ tasks[t].state = "NONE"
    /\ tasks' = [tasks EXCEPT ![t] =
                    [name |-> name, state |-> "PENDING", retries |-> 0, executions |-> 0]]
    /\ UNCHANGED <<store, now, last, cfgvars, racevars, redelivered>>

\* a retry budget one too large: a run that raises is retried while
\* retries <= max_retries
MayRetryOnceMore(retries) == retries <= MAX_RETRIES

\* autoretry_for=(Exception,), max_retries=MAX_RETRIES: a run that raises is
\* retried while the task has been retried fewer than max_retries times
MayRetry(retries) == retries < MAX_RETRIES

\* the worker runs the task; whether the run raises (the store is unavailable,
\* say) is the environment's choice
Execute(t, raises) ==
    /\ tasks[t].state \in {"PENDING", "RETRY"}
    /\ tasks' = [tasks EXCEPT ![t] =
                    IF ~ raises
                    THEN [@ EXCEPT !.state = "SUCCESS", !.executions = @ + 1]
                    ELSE IF MayRetry(tasks[t].retries)
                    THEN [@ EXCEPT !.state = "RETRY", !.retries = @ + 1,
                                   !.executions = @ + 1]
                    ELSE [@ EXCEPT !.state = "FAILURE", !.executions = @ + 1]]
    /\ UNCHANGED <<store, now, last, cfgvars, racevars, redelivered>>

SendTask == \E t \in TaskIds, name \in TaskNames : Delay(t, name)

RunTask(t) == \E raises \in BOOLEAN : Execute(t, raises)

RunSomeTask == \E t \in TaskIds : RunTask(t)

NextRetry ==
    \/ SendTask
    \/ RunSomeTask

\* the worker keeps running the tasks that are pending or due for a retry
SpecRetry ==
    Init /\ [][NextRetry]_vars /\ \A t \in TaskIds : WF_vars(RunTask(t))

\* C15: a task (IDV or proctoring) whose run raises is run again, at most
\* MAX_RETRIES = 3 times after the first run (4 runs in all); when the last
\* retry raises too the task ends in a permanent failure and is not run
\* again; a run that succeeds is never retried.
C15_RetryPolicy ==
    /\ [][\A t \in TaskIds :
            /\ tasks'[t].executions <= MAX_RETRIES + 1
            /\ tasks[t].state \in {"SUCCESS", "FAILURE"} => tasks'[t] = tasks[t]
            /\ (tasks'[t].state = "FAILURE" /\ tasks[t].state # "FAILURE")
                  => tasks'[t].executions = MAX_RETRIES + 1
            /\ (tasks'[t].state = "RETRY" /\ tasks'[t] # tasks[t])
                  => /\ tasks'[t].executions = tasks[t].executions + 1
                     /\ tasks'[t].executions <= MAX_RETRIES]_vars
    /\ \A t \in TaskIds :
          tasks[t].state = "RETRY" ~> tasks[t].state \in {"SUCCESS", "FAILURE"}

\* C15 witness: one task failed for good after 4 runs, the other succeeded on
\* its first retry.
C15_Witness ==
    \E t, u \in TaskIds :
        /\ tasks[t].state = "FAILURE" /\ tasks[t].executions = 4
        /\ tasks[t].retries = 3
        /\ tasks[u].state = "SUCCESS" /\ tasks[u].executions = 2
        /\ tasks[t].name # tasks[u].name

\* --------------------------------------------- concurrent task runs (5)
\* Two runs of the same task for the same user and attempt id, each taking
\* one database statement per step; no lock is held between the statements.
Events ==
    [kind : TaskNames, attempt_id : AttemptIds, user_id : Users,
     name : VerifiedNames, profile : ProfileNames, status : [Procs -> Statuses]]

InitRace ==
    /\ store = <<>>
    /\ now = 1
    /\ last = Idle
    /\ configs = <<>>
    /\ cache = [u \in Users |-> {}]
    /\ given = [u \in Users |-> [flag |-> {}, carried |-> 0]]
    /\ tasks = [t \in TaskIds |-> NoTask]
    /\ event \in Events
    /\ pc = [p \in Procs |-> "start"]
    /\ loc = [p \in Procs |-> {}]
    /\ overlap = FALSE
    /\ redelivered = FALSE

\* the run is between its first statement and its end
InFlight(at) == at \notin {"start", "done"}

\* run p moves to statement `to`; the runs overlap once both are under way
Goto(p, to) ==
    /\ pc' = [pc EXCEPT ![p] = to]
    /\ overlap' = (overlap \/ \E q \in Procs \ {p} : InFlight(to) /\ InFlight(pc[q]))
    /\ UNCHANGED <<last, cfgvars, tasks, event, redelivered>>

\* tasks.py 40-41: the IDV task looks for rows of the user with the name
IdvCheck(p) ==
    /\ event.kind = "idv_update_verified_name_task"
    /\ pc[p] = "start"
    /\ Goto(p, IF FilterUserName(Objects, event.user_id, event.name) # {}
               THEN "update" ELSE "create")
    /\ UNCHANGED <<store, now, loc>>

\* tasks.py 44-47: the bulk update of the unlinked rows
IdvBulkUpdate(p) ==
    /\ pc[p] = "update"
    /\ store' = SetVerificationAttemptId(
                    store, Unlinked(FilterUserName(Objects, event.user_id, event.name)),
                    event.attempt_id)
    /\ Goto(p, "select")
    /\ UNCHANGED <<now, loc>>

\* tasks.py 58-64: the rows for the attempt are loaded
IdvSelect(p) ==
    /\ pc[p] = "select"
    /\ LET qs == ForIdvAttempt(store, FilterUserName(Objects, event.user_id, event.name),
                               event.attempt_id)
       IN  /\ loc' = [loc EXCEPT ![p] = {store[i] : i \in qs}]
           /\ Goto(p, IF qs = {} THEN "done" ELSE "save")
    /\ UNCHANGED <<store, now>>

\* tasks.py 65-66 and 136-137: obj.status = status; obj.save() writes the
\* loaded row back, newest row first
SaveRow(p) ==
    /\ pc[p] = "save"
    /\ LET obj == CHOOSE r \in loc[p] : \A q \in loc[p] : q.created <= r.created
       IN  /\ store' = [store EXCEPT ![obj.id] = [obj EXCEPT !.status = event.status[p]]]
           /\ loc' = [loc EXCEPT ![p] = loc[p] \ {obj}]
           /\ Goto(p, IF loc[p] = {obj} THEN "done" ELSE "save")
    /\ UNCHANGED now

\* tasks.py 78-85 and 149-156: the row is created
CreateRow(p) ==
    /\ pc[p] = "create"
    /\ Len(store) < MaxRecords
    /\ store' = Append(store,
                       IF event.kind = "idv_update_verified_name_task"
                       THEN NewRow(event.user_id, event.name, event.profile,
                                   event.attempt_id, None, event.status[p])
                       ELSE NewRow(event.user_id, event.name, event.profile,
                                   None, event.attempt_id, event.status[p]))
    /\ now' = now + 1
    /\ Goto(p, "done")
    /\ UNCHANGED loc

\* tasks.py 114-129: the proctoring task looks for an approved row of the user
ProctoringCheckApproved(p) ==
    /\ event.kind = "proctoring_update_verified_name_task"
    /\ pc[p] = "start"
    /\ Goto(p, IF ApprovedVerifiedName(event.user_id) # None THEN "done" ELSE "lookup")
    /\ UNCHANGED <<store, now, loc>>

\* tasks.py 131-147: the proctoring task looks for the row of the attempt
ProctoringLookup(p) ==
    /\ pc[p] = "lookup"
    /\ LET verified_name == First(OrderByCreatedDesc(
                   FilterUserProctored(Objects, event.user_id, event.attempt_id)))
       IN  IF verified_name # None
           THEN /\ loc' = [loc EXCEPT ![p] = {store[verified_name]}]
                /\ Goto(p, "save")
           ELSE /\ Goto(p, IF event.name # "" /\ event.profile # ""
                           THEN "create" ELSE "done")
                /\ UNCHANGED loc
    /\ UNCHANGED <<store, now>>

NextRace ==
    \E p \in Procs :
        \/ IdvCheck(p)
        \/ IdvBulkUpdate(p)
        \/ IdvSelect(p)
        \/ SaveRow(p)
        \/ CreateRow(p)
        \/ ProctoringCheckApproved(p)
        \/ ProctoringLookup(p)

SpecRace == InitRace /\ [][NextRace]_vars

\* the rows of the event's user that carry the event's attempt id
RowsForEvent ==
    {i \in RowsOf(store, event.user_id) :
        IF event.kind = "idv_update_verified_name_task"
        THEN store[i].verification_attempt_id = event.attempt_id
        ELSE store[i].proctored_exam_attempt_id = event.attempt_id}

\* C18: two runs of a task for the same user and attempt id that overlap in
\* time can race between the existence check and the write: from a table with
\* no matching row both can pass the check and both create a row, leaving two
\* rows of the user with the same attempt id (the witness); runs that do not
\* overlap, one ending before the other starts, never do (the invariant).
C18_DuplicateOnlyByRace ==
    Cardinality(RowsForEvent) >= 2 => overlap

\* C18 witness: both runs are over and each created a row for the attempt.
C18_Witness ==
    /\ \A p \in Procs : pc[p] = "done"
    /\ overlap
    /\ Cardinality(RowsForEvent) = 2

\* ------------------------------------------------------- re-delivery (6)
\* The broker delivers the message of the task run that just completed once
\* more: the task runs again with the arguments of the run in `last`.
RedeliverTask ==
    /\ last.op \in TaskNames
    /\ redelivered' = TRUE
    /\ UNCHANGED <<cfgvars, tasks, racevars>>
    /\ IF last.op = "idv_update_verified_name_task"
       THEN idv_update_verified_name_task(last.vid, last.user, last.status,
                                          last.name, last.profile)
       ELSE proctoring_update_verified_name_task(last.pid, last.user, last.status,
                                                 last.name, last.profile)

\* the task run ends and its message is acknowledged
Acknowledge ==
    /\ last # Idle
    /\ last' = Idle
    /\ redelivered' = FALSE
    /\ UNCHANGED <<store, now, cfgvars, tasks, racevars>>

NextRedeliver ==
    \/ Acknowledge
    \/ CreateVerifiedName
    \/ GetVerifiedNameCall
    \/ UpdateVerificationAttemptId
    \/ UpdateVerifiedNameStatus
    \/ IdvTask
    \/ ProctoringTask
    \/ RedeliverTask

SpecRedeliver == Init /\ [][NextRedeliver]_vars

\* C19: both handlers are idempotent under re-delivery: a second run with the
\* same arguments, right after a first run that completed, leaves the table
\* (the set of rows and every row's names, attempt ids and status) exactly as
\* the first run left it, whatever the table was before the first run.
C19_RedeliveryIdempotent ==
    [][(last.op \in TaskNames /\ last'.op \in TaskNames) => store' = store]_vars

\* C19 witness: a handler ran again on a re-delivered message after a first
\* run that wrote to the table (it linked or created a row), and the second
\* run took the update path over those rows.
C19_Witness ==
    /\ redelivered
    /\ last.op \in TaskNames
    /\ last.detail = "updated"
    /\ \E i \in RowsOf(store, last.user) :
          /\ store[i].status = last.status
          /\ IF last.op = "idv_update_verified_name_task"
             THEN store[i].verification_attempt_id = last.vid
             ELSE store[i].proctored_exam_attempt_id = last.pid

====
